---- MODULE Spec2Model ----
(***************************************************************************)
(* A model of LecToCal's lectio.py: the lesson-text extraction             *)
(* (_extract_lesson_info and the line predicates it uses), the time-range  *)
(* parser (_get_time_from_line), the visibility filter                     *)
(* (_parse_element_to_lesson / _parse_page_to_lessons) and the schedule    *)
(* merge (_retreive_user_schedule / _filter_for_duplicates).               *)
(*                                                                         *)
(* Text.  A Python str is a sequence of lexemes (TLA+ strings); "" is <<>> *)
(* and + is \o.  The lexemes are the chunks of text the regular            *)
(* expressions of lectio.py tell apart: a date (\d{1,2}/\d{1,2}-\d{4}), a  *)
(* clock time (\d{2}:\d{2}), " ", " til ", "Hele dagen", the line markers, *)
(* the status markers, "\n", and words that match none of the patterns.    *)
(* A regular expression is matched over the lexemes, leftmost match first, *)
(* alternatives in the order the re module tries them.                     *)
(*                                                                         *)
(* Optional values.  None is <<>> and a present value v is <<v>> for the   *)
(* str-or-None fields (location, description, link); the string "None" is  *)
(* None for status and id; a date, a datetime and None are the three kinds *)
(* of a start/end value.                                                   *)
(***************************************************************************)
EXTENDS Integers, Sequences, FiniteSets, TLC

VARIABLES
    pc,                 \* position of the modelled call
    line,               \* _get_time_from_line: its argument
    result,             \* _get_time_from_line: what it returned or raised
    title,              \* _extract_lesson_info: its argument
    info,               \* _extract_lesson_info: what it returned or raised
    page,               \* _parse_page_to_lessons: lesson_elements
    show_top,           \* the --showtop flag
    show_cancelled,     \* the --showcancelled flag
    element,            \* _parse_page_to_lessons: index of the next element
    lessons,            \* _parse_page_to_lessons: lessons
    n_weeks,            \* _retreive_user_schedule: n_weeks
    week_offset,        \* _retreive_user_schedule: the loop variable
    week_schedules,     \* what _retreive_week_schedule returned, per week
    schedule,           \* _retreive_user_schedule: schedule
    filtered_schedule   \* _retreive_user_schedule: filtered_schedule

vars == <<pc, line, result, title, info, page, show_top, show_cancelled,
          element, lessons, n_weeks, week_offset, week_schedules, schedule,
          filtered_schedule>>

timeVars == <<line, result>>
extractVars == <<title, info>>
pageVars == <<page, show_top, show_cancelled, element, lessons>>
mergeVars == <<n_weeks, week_offset, week_schedules, schedule,
               filtered_schedule>>

----------------------------------------------------------------------------
(* Bounds of the model *)

MaxParts == 5
MaxLines == 3
MaxTiles == 2
MaxWeeks == 1
MaxWeekLessons == 2

----------------------------------------------------------------------------
(* Python values *)

None == "None"
NoneText == <<>>
Some(text) == <<text>>

NoneTime == [kind |-> "None", date |-> <<>>, time |-> <<>>]
Date(d) == [kind |-> "date", date |-> d, time |-> <<>>]
DateTime(d, t) == [kind |-> "datetime", date |-> d, time |-> t]

\* SPACER = " " + U+2022 + " "
SPACER == " (bullet) "

----------------------------------------------------------------------------
(* Lexemes *)

DateLexemes == {"14/3-2016", "8/4-2016", "9/4-2016"}
TimeLexemes == {"15:20", "16:50", "17:30", "01:00"}

\* re: \d{1,2}/\d{1,2}-\d{4}
IsDateLexeme(x) == x \in DateLexemes

\* re: \d{2}:\d{2}
IsTimeLexeme(x) == x \in TimeLexemes

\* The lexeme at position i of text s, "" past its end.
At(s, i) == IF i \in 1..Len(s) THEN s[i] ELSE ""

\* s[i:]
From(s, i) == SubSeq(s, i, Len(s))

\* The least of a set of positions, 0 when there is none: where a search
\* from the left first succeeds.
First(positions) ==
    IF positions = {} THEN 0
    ELSE CHOOSE i \in positions : \A j \in positions : i <= j

----------------------------------------------------------------------------
(* _get_date_from_match, _get_time_from_match *)

\* datetime.datetime.strptime(match, "%d/%m-%Y").date(), as <<year, month, day>>
strptime_date(match) ==
    CASE match = "14/3-2016" -> <<2016, 3, 14>>
      [] match = "8/4-2016" -> <<2016, 4, 8>>
      [] match = "9/4-2016" -> <<2016, 4, 9>>

\* datetime.datetime.strptime(match, "%H:%M").time(), as <<hour, minute>>
strptime_time(match) ==
    CASE match = "15:20" -> <<15, 20>>
      [] match = "16:50" -> <<16, 50>>
      [] match = "17:30" -> <<17, 30>>
      [] match = "01:00" -> <<1, 0>>

\* A capture group that did not take part in the match is None.
_get_date_from_match(match) ==
    IF match # None THEN Date(strptime_date(match)) ELSE NoneTime

_get_time_from_match(match) ==
    IF match # None THEN strptime_time(match) ELSE <<>>

----------------------------------------------------------------------------
(* _is_time_line *)

\* The pattern of _is_time_line matched at position i of the line.
IsTimeLineAt(l, i) ==
    /\ IsDateLexeme(At(l, i))
    /\ At(l, i + 1) = " "
    /\ IF At(l, i + 2) = "Hele dagen" THEN TRUE
       ELSE /\ IsTimeLexeme(At(l, i + 2))
            /\ At(l, i + 3) = " til "
            /\ IF IsDateLexeme(At(l, i + 4)) /\ At(l, i + 5) = " "
               THEN IsTimeLexeme(At(l, i + 6))
               ELSE IsTimeLexeme(At(l, i + 4))

_is_time_line(l) == \E i \in 1..Len(l) : IsTimeLineAt(l, i)

----------------------------------------------------------------------------
(* _get_time_from_line *)

\* The capture groups of the optional part "(?: (time) til (date)? ?(time))?"
\* tried after the start date at position i: <<group 2, group 3, group 4>>,
\* all None when the optional part does not match.  The re module tries the
\* end date before it tries to go without, and the optional space likewise.
TimeGroups(l, i) ==
    IF ~ (At(l, i + 1) = " " /\ IsTimeLexeme(At(l, i + 2))
          /\ At(l, i + 3) = " til ")
    THEN <<None, None, None>>
    ELSE IF IsDateLexeme(At(l, i + 4)) /\ At(l, i + 5) = " "
            /\ IsTimeLexeme(At(l, i + 6))
    THEN <<l[i + 2], l[i + 4], l[i + 6]>>
    ELSE IF IsDateLexeme(At(l, i + 4)) /\ IsTimeLexeme(At(l, i + 5))
    THEN <<l[i + 2], l[i + 4], l[i + 5]>>
    ELSE IF At(l, i + 4) = " " /\ IsTimeLexeme(At(l, i + 5))
    THEN <<l[i + 2], None, l[i + 5]>>
    ELSE IF IsTimeLexeme(At(l, i + 4))
    THEN <<l[i + 2], None, l[i + 4]>>
    ELSE <<None, None, None>>

\* match.group(1..4) of the search of _get_time_from_line, <<>> when the
\* search finds nothing: the leftmost date decides where the match starts.
TimeMatch(l) ==
    LET i == First({ k \in 1..Len(l) : IsDateLexeme(l[k]) })
    IN  IF i = 0 THEN <<>> ELSE <<l[i]>> \o TimeGroups(l, i)

\* datetime.datetime.combine(date, time)
combine(date, time) == DateTime(date.date, time)

\* TimeFromMatch with "if not end_date: end_date = start_date" run
\* unconditionally: a captured end date is lost.
TimeFromMatch_EndOnStartDate(match) ==
    IF match = <<>>
    THEN [exc |-> "InvalidTimeLineError", start |-> NoneTime,
          end |-> NoneTime, is_top |-> FALSE]
    ELSE LET start_date == _get_date_from_match(match[1])
             start_time == _get_time_from_match(match[2])
             end_time == _get_time_from_match(match[4])
         IN  [exc |-> None,
              start |-> IF start_time # <<>>
                        THEN combine(start_date, start_time)
                        ELSE start_date,
              end |-> IF end_time # <<>>
                      THEN combine(start_date, end_time)
                      ELSE start_date,
              is_top |-> start_time = <<>>]

\* The body of _get_time_from_line after its search; match is
\* <<group 1, ..., group 4>>, or <<>> for "match is None".
TimeFromMatch(match) ==
    IF match = <<>>
    THEN [exc |-> "InvalidTimeLineError", start |-> NoneTime,
          end |-> NoneTime, is_top |-> FALSE]
    ELSE LET start_date == _get_date_from_match(match[1])
             start_time == _get_time_from_match(match[2])
             end_date0 == _get_date_from_match(match[3])
             end_time == _get_time_from_match(match[4])
             end_date == IF end_date0 = NoneTime THEN start_date
                         ELSE end_date0
         IN  [exc |-> None,
              start |-> IF start_time # <<>>
                        THEN combine(start_date, start_time)
                        ELSE start_date,
              end |-> IF end_time # <<>>
                      THEN combine(end_date, end_time)
                      ELSE end_date,
              is_top |-> start_time = <<>>]

_get_time_from_line(l) == TimeFromMatch(TimeMatch(l))

----------------------------------------------------------------------------
(* Line predicates and getters *)

\* LESSON_STATUS = {None: "normal", "Ændret!": "changed", "Aflyst!": "cancelled"}
\* looked up with a str key: the result, or "KeyError".
LESSON_STATUS(key) ==
    CASE key = None -> "normal"
      [] key = <<"Ændret!">> -> "changed"
      [] key = <<"Aflyst!">> -> "cancelled"
      [] OTHER -> "KeyError"

\* re.search(r"Ændret!|Aflyst!", line)
_is_status_line(l) == \E i \in 1..Len(l) : l[i] \in {"Ændret!", "Aflyst!"}

\* The status, or "InvalidStatusError" when the lookup raises KeyError.
_get_status_from_line(l) ==
    IF LESSON_STATUS(l) = "KeyError" THEN "InvalidStatusError"
    ELSE LESSON_STATUS(l)

\* re: "Lokaler?: "
LocationMarkers == {"Lokale: ", "Lokaler: "}

_is_location_line(l) == \E i \in 1..Len(l) : l[i] \in LocationMarkers

\* match.group(1) of re.search(r"<marker>(.*)", line): the text after the
\* leftmost marker, or <<"Invalid">> standing for match is None.
AfterMarker(markers, l) ==
    LET i == First({ k \in 1..Len(l) : l[k] \in markers })
    IN  IF i = 0 THEN <<"Invalid">> ELSE From(l, i + 1)

_get_location_from_line(l) == AfterMarker(LocationMarkers, l)

\* line.startswith("Hold: ")
_is_groups_line(l) == At(l, 1) = "Hold: "

_get_groups_from_line(l) == AfterMarker({"Hold: "}, l)

\* line.startswith("Ressourcer: ")
_is_ressources_line(l) == At(l, 1) = "Ressourcer: "

_get_ressources_from_line(l) == AfterMarker({"Ressourcer: "}, l)

----------------------------------------------------------------------------
(* Text helpers *)

_add_line_to_text(l, text) ==
    (IF text # <<>> THEN text \o <<"\n">> ELSE text) \o l

_append_section_to_summary(section, summary) ==
    summary \o (IF summary # <<>> THEN <<SPACER>> ELSE <<>>) \o section

_prepend_section_to_summary(section, summary) ==
    section \o (IF summary # <<>> THEN <<SPACER>> ELSE <<>>) \o summary

\* title.splitlines(): the text between the line breaks, without a last
\* empty line.
RECURSIVE SplitAll(_, _)
SplitAll(s, cur) ==
    IF s = <<>> THEN <<cur>>
    ELSE IF Head(s) = "\n" THEN <<cur>> \o SplitAll(Tail(s), <<>>)
    ELSE SplitAll(Tail(s), Append(cur, Head(s)))

splitlines(s) ==
    LET all == SplitAll(s, <<>>)
    IN  IF all[Len(all)] = <<>> THEN SubSeq(all, 1, Len(all) - 1) ELSE all

\* summary.replace("Lærere: ", "")
RemoveTeachersPrefix(summary) == SelectSeq(summary, LAMBDA x : x # "Lærere: ")

\* re.sub(r"Lærer: [^(]*\(([^)]*)\)", r"\1", summary), from position i on.
RECURSIVE SubTeacher(_, _)
SubTeacher(s, i) ==
    IF i > Len(s) THEN <<>>
    ELSE LET open == IF s[i] = "Lærer: "
                     THEN First({ k \in (i + 1)..Len(s) : s[k] = "(" })
                     ELSE 0
             close == IF open = 0 THEN 0
                      ELSE First({ k \in (open + 1)..Len(s) : s[k] = ")" })
         IN  IF close = 0 THEN <<s[i]>> \o SubTeacher(s, i + 1)
             ELSE SubSeq(s, open + 1, close - 1) \o SubTeacher(s, close + 1)

\* groups.find("Alle") == -1 is false for these lexemes only.
ContainsAlle(groups) ==
    \E i \in 1..Len(groups) : groups[i] \in {"Alle", "Alle 1a, 1b"}

----------------------------------------------------------------------------
(* _extract_lesson_info *)

\* The locals of _extract_lesson_info before its loop; exc names the
\* exception raised, None while none is.
Locals(status, event_title, offset) ==
    [exc |-> None, header_section |-> TRUE, summary |-> <<>>,
     description |-> <<>>, event_title |-> event_title, groups |-> <<>>,
     ressources |-> <<>>, status |-> status, start_time |-> NoneTime,
     end_time |-> NoneTime, location |-> NoneText, is_top |-> FALSE,
     offset |-> offset]

Raise(st, exc) == [st EXCEPT !.exc = exc]

\* "Find status and event title (if present) and offset"
FindStatusAndTitle(lines) ==
    IF Len(lines) < 2 THEN Locals(None, <<>>, 0)
    ELSE LET isStatus == _is_status_line(lines[1])
             status == IF isStatus THEN _get_status_from_line(lines[1])
                       ELSE None
             l == IF isStatus THEN lines[2] ELSE lines[1]
             offset == IF isStatus THEN 1 ELSE 0
         IN  IF status = "InvalidStatusError"
             THEN Raise(Locals(None, <<>>, 0), "InvalidStatusError")
             ELSE IF ~ _is_time_line(l)
             THEN Locals(status, l, offset + 1)
             ELSE Locals(status, <<>>, offset)

\* "start_time, end_time, is_top = _get_time_from_line(line)"
SetTime(st, t) ==
    IF t.exc # None THEN Raise(st, t.exc)
    ELSE [st EXCEPT !.start_time = t.start, !.end_time = t.end,
                    !.is_top = t.is_top]

\* "location = _get_location_from_line(line)"
SetLocation(st, v) ==
    IF v = <<"Invalid">> THEN Raise(st, "InvalidLocationError")
    ELSE [st EXCEPT !.location = Some(v)]

\* "groups = _get_groups_from_line(line)"
SetGroups(st, v) ==
    IF v = <<"Invalid">> THEN Raise(st, "InvalidGroupsError")
    ELSE [st EXCEPT !.groups = v]

\* "ressources = _get_ressources_from_line(line)"
SetRessources(st, v) ==
    IF v = <<"Invalid">> THEN Raise(st, "InvalidRessourcesError")
    ELSE [st EXCEPT !.ressources = v]

\* One pass of the body of "for line in lines[offset:]".
LineStep(st, l) ==
    IF ~ st.header_section
    THEN [st EXCEPT !.description = _add_line_to_text(l, @)]
    ELSE IF l = <<>>
    THEN [st EXCEPT !.header_section = FALSE]
    ELSE IF _is_time_line(l)
    THEN SetTime(st, _get_time_from_line(l))
    ELSE IF _is_location_line(l)
    THEN SetLocation(st, _get_location_from_line(l))
    ELSE IF _is_groups_line(l)
    THEN SetGroups(st, _get_groups_from_line(l))
    ELSE IF _is_ressources_line(l)
    THEN SetRessources(st, _get_ressources_from_line(l))
    ELSE [st EXCEPT !.summary = _append_section_to_summary(l, @)]

\* "Get info from all lines": the loop from line i on, left as soon as a
\* call raises.
RECURSIVE Loop(_, _, _)
Loop(st, lines, i) ==
    IF i > Len(lines) \/ st.exc # None THEN st
    ELSE Loop(LineStep(st, lines[i]), lines, i + 1)

\* "Remove extra text in the summary"
RemoveExtraText(st) ==
    [st EXCEPT !.summary = SubTeacher(RemoveTeachersPrefix(@), 1)]

\* Construct with the test "groups.find("Alle") == -1" left out: the title
\* always goes to the summary.
Construct_TitleInSummary(st) ==
    LET d1 == IF st.ressources # <<>>
              THEN <<"Ressoucer: ">> \o st.ressources \o <<"\n\n">>
                   \o st.description
              ELSE st.description
        s1 == IF st.location # NoneText /\ st.location[1] # <<>>
              THEN _append_section_to_summary(st.location[1], st.summary)
              ELSE st.summary
        s2 == IF st.groups # <<>>
              THEN _prepend_section_to_summary(st.groups, s1)
              ELSE s1
    IN  [st EXCEPT !.summary = _prepend_section_to_summary(st.event_title,
                                                           s2),
                   !.description = d1]

\* "Construct summary and description"
Construct(st) ==
    LET d1 == IF st.ressources # <<>>
              THEN <<"Ressoucer: ">> \o st.ressources \o <<"\n\n">>
                   \o st.description
              ELSE st.description
        s1 == IF st.location # NoneText /\ st.location[1] # <<>>
              THEN _append_section_to_summary(st.location[1], st.summary)
              ELSE st.summary
        s2 == IF st.groups # <<>>
              THEN _prepend_section_to_summary(st.groups, s1)
              ELSE s1
        toDescription == st.groups # <<>> /\ ~ ContainsAlle(st.groups)
        d2 == IF toDescription
              THEN st.event_title \o <<"\n\n">> \o d1
              ELSE d1
        s3 == IF toDescription THEN s2
              ELSE _prepend_section_to_summary(st.event_title, s2)
    IN  [st EXCEPT !.summary = s3, !.description = d2]

\* What _extract_lesson_info returns: the tuple (summary, status,
\* start_time, end_time, location, description, is_top), or the exception.
Returned(st) ==
    IF st.exc # None
    THEN [exc |-> st.exc, summary |-> <<>>, status |-> None,
          start_time |-> NoneTime, end_time |-> NoneTime,
          location |-> NoneText, description |-> NoneText, is_top |-> FALSE]
    ELSE [exc |-> None, summary |-> st.summary, status |-> st.status,
          start_time |-> st.start_time, end_time |-> st.end_time,
          location |-> st.location,
          description |-> IF st.description = <<>> THEN NoneText
                          ELSE Some(st.description),
          is_top |-> st.is_top]

\* "for line in lines[offset:]"
LoopFromOffset(st0, lines) == Loop(st0, lines, st0.offset + 1)

\* The locals when the loop over the lines is left.
LoopOver(lines) == LoopFromOffset(FindStatusAndTitle(lines), lines)

\* The rest of _extract_lesson_info, unless a call in the loop raised.
AfterLoop(st) ==
    IF st.exc # None THEN Returned(st)
    ELSE Returned(Construct(RemoveExtraText(st)))

_extract_lesson_info(t) == AfterLoop(LoopOver(splitlines(t)))

----------------------------------------------------------------------------
(* The time-range parser on its own *)

\* Chunks of text a line is put together from.
TimeParts ==
    { <<"8/4-2016">>, <<"9/4-2016">>, <<" ", "17:30", " til ">>, <<"01:00">>,
      <<" ">>, <<" ", "Hele dagen">>, <<"x">> }

RECURSIVE Concat(_)
Concat(ss) == IF ss = <<>> THEN <<>> ELSE Head(ss) \o Concat(Tail(ss))

SeqsUpTo(S, n) == UNION { [1..k -> S] : k \in 0..n }

TimeLines == { Concat(ps) : ps \in SeqsUpTo(TimeParts, MaxParts) }

NoResult == [exc |-> "unset", start |-> NoneTime, end |-> NoneTime,
             is_top |-> FALSE]

NoInfo == [exc |-> "unset"]

IdleExtract == title = <<>> /\ info = NoInfo
IdlePage ==
    /\ page = <<>> /\ show_top = FALSE /\ show_cancelled = FALSE
    /\ element = 0 /\ lessons = <<>>
IdleMerge ==
    /\ n_weeks = 0 /\ week_offset = 0 /\ week_schedules = <<>>
    /\ schedule = <<>> /\ filtered_schedule = <<>>

InitTime ==
    /\ pc = "time"
    /\ line \in TimeLines
    /\ result = NoResult
    /\ IdleExtract /\ IdlePage /\ IdleMerge

\* The call _extract_lesson_info makes for a line _is_time_line accepts.
GetTimeFromLine ==
    /\ pc = "time"
    /\ _is_time_line(line)
    /\ result' = _get_time_from_line(line)
    /\ pc' = "time_done"
    /\ UNCHANGED <<line, extractVars, pageVars, mergeVars>>

\* A line _is_time_line rejects is handed to the next predicate.
NotATimeLine ==
    /\ pc = "time"
    /\ ~ _is_time_line(line)
    /\ pc' = "time_skipped"
    /\ UNCHANGED <<timeVars, extractVars, pageVars, mergeVars>>

NextTime == GetTimeFromLine \/ NotATimeLine

SpecTime == InitTime /\ [][NextTime]_vars

----------------------------------------------------------------------------
(* The extraction of one raw block *)

\* The lines a raw block is put together from.
LinePool ==
    { <<>>,
      <<"Aflyst!">>,
      <<"Ændret!">>,
      <<"Aflyst!", " i dag">>,
      <<"14/3-2016", " ", "15:20", " til ", "16:50">>,
      <<"14/3-2016", " ", "Hele dagen">>,
      <<"Lokale: ", "204">>,
      <<"Lokale: ">>,
      <<"Rum ", "Lokale: ", "204">>,
      <<"Hold: ", "1a">>,
      <<"Hold: ", "Alle 1a, 1b">>,
      <<"Hold: ">>,
      <<"Ressourcer: ", "Bus">>,
      <<"Ressourcer: ">>,
      <<"Math">>,
      <<"Lærer: ", "Bo Ek ", "(", "BE", ")">>,
      <<"Lærere: ", "BE, JK">> }

\* "\n".join(lines)
RECURSIVE Join(_)
Join(lines) ==
    IF lines = <<>> THEN <<>>
    ELSE IF Len(lines) = 1 THEN lines[1]
    ELSE lines[1] \o <<"\n">> \o Join(Tail(lines))

Blocks == { Join(ls) : ls \in SeqsUpTo(LinePool, MaxLines) }

InitExtract ==
    /\ pc = "extract"
    /\ title \in Blocks
    /\ info = NoInfo
    /\ line = <<>> /\ result = NoResult
    /\ IdlePage /\ IdleMerge

ExtractLessonInfo ==
    /\ pc = "extract"
    /\ info' = _extract_lesson_info(title)
    /\ pc' = "extract_done"
    /\ UNCHANGED <<title, timeVars, pageVars, mergeVars>>

NextExtract == ExtractLessonInfo

SpecExtract == InitExtract /\ [][NextExtract]_vars

----------------------------------------------------------------------------
(* lesson.Lesson *)

\* lesson.Lesson(id, summary, status, start, end, location, description, link)
Lesson(id, summary, status, start, end, location, description, link) ==
    [id |-> id, summary |-> summary, status |-> status, start |-> start,
     end |-> end, location |-> location, description |-> description,
     link |-> link]

\* Lesson.__eq__: two Lessons are equal iff every field is equal.
LessonEq(a, b) ==
    /\ a.id = b.id /\ a.summary = b.summary /\ a.status = b.status
    /\ a.start = b.start /\ a.end = b.end /\ a.location = b.location
    /\ a.description = b.description /\ a.link = b.link

----------------------------------------------------------------------------
(* _get_id_from_link, _get_complete_link *)

IdKeyLexemes == {"absid=", "ProeveholdId=", "outboundCensorID=", "aftaleid="}
DigitLexemes == {"123", "456"}

\* re.search(r"(?:absid|ProeveholdId|outboundCensorID|aftaleid)=(\d+)", link)
_get_id_from_link(link) ==
    LET i == First({ k \in 1..Len(link) :
                       /\ link[k] \in IdKeyLexemes
                       /\ At(link, k + 1) \in DigitLexemes })
    IN  IF i = 0 THEN None ELSE link[i + 1]

\* "https://www.lectio.dk" + link.split("&prevurl=", 1)[0]
_get_complete_link(link) ==
    LET i == First({ k \in 1..Len(link) : link[k] = "&prevurl=" })
    IN  <<"https://www.lectio.dk">>
        \o (IF i = 0 THEN link ELSE SubSeq(link, 1, i - 1))

----------------------------------------------------------------------------
(* _parse_element_to_lesson *)

\* What the call returns: ret is <<>> for None and <<lesson>> for a Lesson;
\* exc names the exception that left it, None when it returned.
Return(ret) == [exc |-> None, ret |-> ret]
Raised(exc) == [exc |-> exc, ret |-> <<>>]

\* LessonOrNone without its "elif not show_cancelled ..." branch.
LessonOrNone_KeepsCancelled(id, link, i, st, sc) ==
    IF i.exc # None THEN Raised(i.exc)
    ELSE IF ~ st /\ i.is_top THEN Return(<<>>)
    ELSE Return(<<Lesson(id, i.summary, i.status, i.start_time, i.end_time,
                         i.location, i.description, link)>>)

\* The end of _parse_element_to_lesson: i is what _extract_lesson_info
\* returned or raised.
LessonOrNone(id, link, i, st, sc) ==
    IF i.exc # None THEN Raised(i.exc)
    ELSE IF ~ st /\ i.is_top THEN Return(<<>>)
    ELSE IF ~ sc /\ i.status = "cancelled" THEN Return(<<>>)
    ELSE Return(<<Lesson(id, i.summary, i.status, i.start_time, i.end_time,
                         i.location, i.description, link)>>)

\* "if link:" holds for a link that is neither None nor "".
HasLink(href) == href # NoneText /\ href[1] # <<>>

\* element.get(name) is <<>> (None) for an attribute the element lacks;
\* None.splitlines() raises AttributeError.
_parse_element_to_lesson(el, st, sc) ==
    IF el.info = NoneText THEN Raised("AttributeError")
    ELSE LessonOrNone(
             IF HasLink(el.href) THEN _get_id_from_link(el.href[1]) ELSE None,
             IF HasLink(el.href) THEN Some(_get_complete_link(el.href[1]))
             ELSE el.href,
             _extract_lesson_info(el.info[1]), st, sc)

----------------------------------------------------------------------------
(* _parse_page_to_lessons *)

TimeLine == <<"14/3-2016", " ", "15:20", " til ", "16:50">>
TopLine == <<"14/3-2016", " ", "Hele dagen">>

\* data-additionalinfo of the tiles of a page
TileInfos ==
    { Some(Join(<<<<"Math">>, TimeLine, <<"Lokale: ", "204">>>>)),
      Some(Join(<<<<"Aflyst!">>, <<"Math">>, TimeLine>>)),
      Some(Join(<<<<"Ændret!">>, <<"Math">>, TimeLine>>)),
      Some(Join(<<<<"Math">>, TopLine>>)),
      Some(Join(<<<<"Aflyst!">>, <<"Math">>, TopLine>>)),
      Some(Join(<<<<"Aflyst!", " i dag">>, <<"Math">>, TimeLine>>)),
      NoneText }

\* href of the tiles of a page
TileLinks ==
    { NoneText,
      Some(<<"/lectio/523/aktivitet/aktivitetforside2.aspx?", "absid=",
             "123", "&prevurl=", "SkemaNy.aspx">>),
      Some(<<"/lectio/523/privat_aftale.aspx?", "id=", "456">>) }

Tiles == [href : TileLinks, info : TileInfos]

InitPage ==
    /\ pc = "page"
    /\ page \in SeqsUpTo(Tiles, MaxTiles)
    /\ show_top \in BOOLEAN
    /\ show_cancelled \in BOOLEAN
    /\ element = 1
    /\ lessons = <<>>
    /\ line = <<>> /\ result = NoResult
    /\ IdleExtract /\ IdleMerge

\* "if lesson is not None: lessons.append(lesson)", unless the call raised.
AppendLesson(r) ==
    /\ pc' = IF r.exc # None THEN "page_raised" ELSE "page"
    /\ lessons' = IF r.exc # None THEN lessons ELSE lessons \o r.ret

\* One pass of "for element in lesson_elements".
ParseElement ==
    /\ pc = "page"
    /\ element <= Len(page)
    /\ AppendLesson(_parse_element_to_lesson(page[element], show_top,
                                             show_cancelled))
    /\ element' = element + 1
    /\ UNCHANGED <<page, show_top, show_cancelled, timeVars, extractVars,
                   mergeVars>>

\* "return lessons"
ReturnLessons ==
    /\ pc = "page"
    /\ element > Len(page)
    /\ pc' = "page_done"
    /\ UNCHANGED <<pageVars, timeVars, extractVars, mergeVars>>

NextPage == ParseElement \/ ReturnLessons

SpecPage == InitPage /\ [][NextPage]_vars

----------------------------------------------------------------------------
(* _filter_for_duplicates, _retreive_user_schedule *)

\* "lesson not in filtered_schedule"
NotIn(lesson, filtered) ==
    \A i \in 1..Len(filtered) : ~ LessonEq(lesson, filtered[i])

\* The loop of _filter_for_duplicates from position i on.
RECURSIVE FilterLoop(_, _, _)
FilterLoop(sched, i, filtered) ==
    IF i > Len(sched) THEN filtered
    ELSE FilterLoop(sched, i + 1,
                    IF NotIn(sched[i], filtered)
                    THEN Append(filtered, sched[i])
                    ELSE filtered)

\* _filter_for_duplicates comparing a lesson with the last kept one only.
RECURSIVE FilterLoop_LastOnly(_, _, _)
FilterLoop_LastOnly(sched, i, filtered) ==
    IF i > Len(sched) THEN filtered
    ELSE FilterLoop_LastOnly(
             sched, i + 1,
             IF filtered = <<>>
                \/ ~ LessonEq(sched[i], filtered[Len(filtered)])
             THEN Append(filtered, sched[i])
             ELSE filtered)

_filter_for_duplicates_LastOnly(sched) == FilterLoop_LastOnly(sched, 1, <<>>)

_filter_for_duplicates(sched) == FilterLoop(sched, 1, <<>>)

\* The lessons the weeks of a schedule hold; the first two differ in id only.
WeekLessons ==
    { Lesson("123", <<"1a", SPACER, "204">>, None,
             DateTime(<<2016, 3, 14>>, <<15, 20>>),
             DateTime(<<2016, 3, 14>>, <<16, 50>>), Some(<<"204">>),
             Some(<<"Math", "\n\n">>), NoneText),
      Lesson("456", <<"1a", SPACER, "204">>, None,
             DateTime(<<2016, 3, 14>>, <<15, 20>>),
             DateTime(<<2016, 3, 14>>, <<16, 50>>), Some(<<"204">>),
             Some(<<"Math", "\n\n">>), NoneText),
      Lesson(None, <<"Math">>, "cancelled", Date(<<2016, 4, 8>>),
             Date(<<2016, 4, 8>>), NoneText, NoneText, NoneText) }

InitMerge ==
    /\ pc = "merge"
    /\ n_weeks \in -1..MaxWeeks
    /\ week_offset = 0
    /\ week_schedules = <<>>
    /\ schedule = <<>>
    /\ filtered_schedule = <<>>
    /\ line = <<>> /\ result = NoResult
    /\ IdleExtract /\ IdlePage

\* One pass of "for week_offset in range(n_weeks + 1)": the week's page is
\* fetched and parsed, and its lessons are added to the schedule.
RetrieveWeek ==
    /\ pc = "merge"
    /\ week_offset < n_weeks + 1
    /\ \E week_schedule \in SeqsUpTo(WeekLessons, MaxWeekLessons) :
          /\ week_schedules' = Append(week_schedules, week_schedule)
          /\ schedule' = schedule \o week_schedule
    /\ week_offset' = week_offset + 1
    /\ UNCHANGED <<pc, n_weeks, filtered_schedule, timeVars, extractVars,
                   pageVars>>

\* _retreive_week_schedule raises (CookiesNotSet, or what parsing the page
\* raises): _retreive_user_schedule is left and no schedule is returned.
RetrieveWeekRaises ==
    /\ pc = "merge"
    /\ week_offset < n_weeks + 1
    /\ pc' = "merge_raised"
    /\ UNCHANGED <<mergeVars, timeVars, extractVars, pageVars>>

\* "filtered_schedule = _filter_for_duplicates(schedule)"
FilterForDuplicates ==
    /\ pc = "merge"
    /\ week_offset >= n_weeks + 1
    /\ filtered_schedule' = _filter_for_duplicates(schedule)
    /\ pc' = "merge_done"
    /\ UNCHANGED <<n_weeks, week_offset, week_schedules, schedule, timeVars,
                   extractVars, pageVars>>

NextMerge == RetrieveWeek \/ RetrieveWeekRaises \/ FilterForDuplicates

SpecMerge == InitMerge /\ [][NextMerge]_vars

----------------------------------------------------------------------------
(* Properties of the time-range parser *)

ScenarioC == <<"8/4-2016", " ", "17:30", " til ", "9/4-2016", " ", "01:00">>
WholeDay == <<"8/4-2016", " ", "Hele dagen">>

\* What C3 says of the triple returned for capture groups m.
TimeTripleAsClaimed(m, r) ==
    /\ r.is_top <=> (m[2] = None)
    /\ r.is_top => r.start = Date(strptime_date(m[1])) /\ r.end.kind = "date"
    /\ ~ r.is_top =>
          /\ r.start = DateTime(strptime_date(m[1]), strptime_time(m[2]))
          /\ r.end = DateTime(strptime_date(IF m[3] = None THEN m[1]
                                            ELSE m[3]),
                              strptime_time(m[4]))
    /\ m[3] = None => r.end.date = r.start.date

----------------------------------------------------------------------------
(* Properties of the page filter *)

\* The tile is one C2 says is discarded under the flags.
Discarded(tile, st, sc) ==
    \/ _extract_lesson_info(tile.info[1]).is_top /\ ~ st
    \/ _extract_lesson_info(tile.info[1]).status = "cancelled" /\ ~ sc

\* The number of tiles among the first n of the page that are kept.
Kept(n) == Cardinality({ i \in 1..n : ~ Discarded(page[i], show_top,
                                                   show_cancelled) })

\* C2: _parse_element_to_lesson returns no lesson for a tile that is_top
\* with show_top false or cancelled with show_cancelled false, and exactly
\* one Lesson otherwise; so the list of _parse_page_to_lessons holds no
\* header/all-day entry when show_top is false and no cancelled entry when
\* show_cancelled is false.
C2_Filter ==
    pc \in {"page", "page_done"} =>
        /\ Len(lessons) = Kept(element - 1)
        /\ ~ show_top => \A i \in 1..Len(lessons) :
                            lessons[i].start.kind # "date"
        /\ ~ show_cancelled => \A i \in 1..Len(lessons) :
                                  lessons[i].status # "cancelled"

\* A page with a cancelled tile and a tile that is not has been parsed with
\* both flags off, and one lesson is left.
C2_Witness ==
    /\ pc = "page_done"
    /\ ~ show_top /\ ~ show_cancelled
    /\ Len(page) = 2
    /\ _extract_lesson_info(page[1].info[1]).status = "cancelled"
    /\ ~ _extract_lesson_info(page[1].info[1]).is_top
    /\ Len(lessons) = 1

----------------------------------------------------------------------------
(* Properties of the schedule merge *)

\* The position of the first lesson of s equal to x.
FirstOccurrence(s, x) == First({ k \in 1..Len(s) : LessonEq(s[k], x) })

\* C1: the schedule returned is the concatenation of the per-period lists,
\* in period order, with every lesson equal to an earlier one removed: each
\* distinct lesson of the input appears exactly once, no other lesson
\* appears, and the kept lessons are in the order of their first
\* occurrences.
C1_Merge ==
    pc = "merge_done" =>
        /\ schedule = Concat(week_schedules)
        /\ \A i \in 1..Len(schedule) :
              Cardinality({ j \in 1..Len(filtered_schedule) :
                              LessonEq(filtered_schedule[j], schedule[i]) })
              = 1
        /\ \A j \in 1..Len(filtered_schedule) :
              FirstOccurrence(schedule, filtered_schedule[j]) # 0
        /\ \A j, k \in 1..Len(filtered_schedule) :
              j < k => FirstOccurrence(schedule, filtered_schedule[j])
                       < FirstOccurrence(schedule, filtered_schedule[k])

\* Two weeks with a lesson in both, a different lesson between the two
\* copies, have been merged.
C1_Witness ==
    /\ pc = "merge_done"
    /\ Len(week_schedules) = 2
    /\ Len(week_schedules[1]) = 2
    /\ Len(week_schedules[2]) = 2
    /\ week_schedules[1][1] = week_schedules[2][2]
    /\ week_schedules[1][2] # week_schedules[1][1]
    /\ week_schedules[2][1] = week_schedules[1][2]
    /\ Len(filtered_schedule) = 2

----------------------------------------------------------------------------
(* Properties of the extraction *)

\* The locals of _extract_lesson_info for the block, after "Remove extra
\* text in the summary".
LocalsOf(t) == RemoveExtraText(LoopOver(splitlines(t)))

\* The position of the first blank line after the status and title lines,
\* 0 when there is none.
BlankAt(lines, offset) ==
    First({ k \in (offset + 1)..Len(lines) : lines[k] = <<>> })

\* The lines of the header section: after the status and title lines, up
\* to the first blank line.
HeaderLines(lines, offset) ==
    SubSeq(lines, offset + 1,
           IF BlankAt(lines, offset) = 0 THEN Len(lines)
           ELSE BlankAt(lines, offset) - 1)

\* The lines after the first blank line.
DescriptionLines(lines, offset) ==
    IF BlankAt(lines, offset) = 0 THEN <<>>
    ELSE SubSeq(lines, BlankAt(lines, offset) + 1, Len(lines))

HeaderOf(t) ==
    HeaderLines(splitlines(t), FindStatusAndTitle(splitlines(t)).offset)

DescriptionOf(t) ==
    DescriptionLines(splitlines(t), FindStatusAndTitle(splitlines(t)).offset)

\* The non-empty texts among the sections, joined by sep.
RECURSIVE JoinNonEmpty(_, _)
JoinNonEmpty(sections, sep) ==
    IF sections = <<>> THEN <<>>
    ELSE LET rest == JoinNonEmpty(Tail(sections), sep)
         IN  IF Head(sections) = <<>> THEN rest
             ELSE IF rest = <<>> THEN Head(sections)
             ELSE Head(sections) \o <<sep>> \o rest

IsSuffix(x, s) ==
    Len(x) <= Len(s) /\ SubSeq(s, Len(s) - Len(x) + 1, Len(s)) = x

Returns == pc = "extract_done" /\ info.exc = None

\* description before "if description == "": description = None"
Text(description) ==
    IF description = NoneText THEN <<>> ELSE description[1]

\* What C4 says of the returned summary and description, for the locals st.
ComposedAsClaimed(st, i) ==
    LET loc == IF st.location = NoneText THEN <<>> ELSE st.location[1]
        rest == JoinNonEmpty(<<st.groups, st.summary, loc>>, SPACER)
        resAndText ==
            IF st.ressources = <<>> THEN st.description
            ELSE <<"Ressoucer: ">> \o st.ressources \o <<"\n\n">>
                 \o st.description
    IN  /\ IF st.groups # <<>> /\ ~ ContainsAlle(st.groups)
           THEN /\ Text(i.description)
                   = st.event_title \o <<"\n\n">> \o resAndText
                /\ i.summary = rest
           ELSE /\ Text(i.description) = resAndText
                /\ i.summary
                   = st.event_title
                     \o (IF rest # <<>> THEN <<SPACER>> ELSE <<>>) \o rest
        /\ loc # <<>> =>
              /\ IsSuffix(loc, i.summary)
              /\ \/ Len(i.summary) = Len(loc)
                 \/ i.summary[Len(i.summary) - Len(loc)] = SPACER

C5_Status ==
    Returns =>
        LET lines == splitlines(title)
            first == IF lines = <<>> THEN <<>> ELSE lines[1]
        IN  /\ info.status \in {"normal", "changed", "cancelled"}
            /\ first = <<"Ændret!">> => info.status = "changed"
            /\ first = <<"Aflyst!">> => info.status = "cancelled"
            /\ first \notin {<<"Ændret!">>, <<"Aflyst!">>}
                  => info.status = "normal"

\* C6: a block whose header section holds no time-range line ends in an
\* error: no record is returned whose start and end are absent.
C6_NoTimeLine ==
    pc = "extract_done" =>
        /\ (\A k \in 1..Len(HeaderOf(title)) :
               ~ _is_time_line(HeaderOf(title)[k])) => info.exc # None
        /\ info.exc = None =>
              info.start_time # NoneTime /\ info.end_time # NoneTime

\* The header line is taken for a location, groups or resources line and
\* has no text after its marker.
EmptyPayload(l) ==
    /\ ~ _is_time_line(l)
    /\ \/ _is_location_line(l) /\ _get_location_from_line(l) = <<>>
       \/ ~ _is_location_line(l) /\ l = <<"Hold: ">>
       \/ ~ _is_location_line(l) /\ l = <<"Ressourcer: ">>

\* C7: a header line recognized as a location, groups or resources line
\* with no text after the prefix ends the extraction in an error; an empty
\* payload is never accepted.
C7_EmptyPayload ==
    pc = "extract_done" =>
        /\ (\E k \in 1..Len(HeaderOf(title)) :
               EmptyPayload(HeaderOf(title)[k])) => info.exc # None
        /\ info.exc = None => info.location # Some(<<>>)

\* The category C8 gives a header line.
CategoryAsClaimed(l) ==
    IF _is_time_line(l) THEN "time"
    ELSE IF At(l, 1) \in LocationMarkers THEN "location"
    ELSE IF At(l, 1) = "Hold: " THEN "groups"
    ELSE IF At(l, 1) = "Ressourcer: " THEN "ressources"
    ELSE "free"

\* C8: a header line is a time-range line, else a location line when it
\* begins with "Lokale:" or "Lokaler:", else a groups line when it begins
\* with "Hold: ", else a resources line when it begins with "Ressourcer: ",
\* else free text; free text is added to the summary in the order met and
\* changes nothing else; the lines after the first blank line make up the
\* description, unclassified.
C8_Categories ==
    pc = "extract_done" /\ LoopOver(splitlines(title)).exc = None =>
        LET header == HeaderOf(title)
            st == LoopOver(splitlines(title))
            Of(c) == SelectSeq(header, LAMBDA l : CategoryAsClaimed(l) = c)
        IN  /\ st.summary = JoinNonEmpty(Of("free"), SPACER)
            /\ st.location # NoneText <=> Of("location") # <<>>
            /\ st.groups # <<>> => Of("groups") # <<>>
            /\ st.ressources # <<>> => Of("ressources") # <<>>
            /\ st.start_time # NoneTime <=> Of("time") # <<>>
            /\ st.description = JoinNonEmpty(DescriptionOf(title), "\n")

\* C9: the returned description is never the empty string, and it is
\* absent when the block has no title line, no resources line and no line
\* after the first blank line, whatever its groups line.
C9_Description ==
    Returns =>
        /\ info.description # Some(<<>>)
        /\ (/\ LocalsOf(title).event_title = <<>>
            /\ LocalsOf(title).ressources = <<>>
            /\ LocalsOf(title).description = <<>>)
           => info.description = NoneText

\* C10: the separator stands only between two non-empty sections of the
\* summary: the summary does not begin with it, does not end with it and
\* never holds two in a row.
C10_Separator ==
    Returns =>
        \/ info.summary = <<>>
        \/ /\ info.summary[1] # SPACER
           /\ info.summary[Len(info.summary)] # SPACER
           /\ \A k \in 1..(Len(info.summary) - 1) :
                 ~ (info.summary[k] = SPACER /\ info.summary[k + 1] = SPACER)

====
